---------------------------- MODULE Spec2Model ----------------------------
(***************************************************************************)
(* Model of the Risk-Radar analytics: sector ranking and replacement       *)
(* recommendation (src/app.py), underperformer detection, sector exposure, *)
(* weight alignment under missing price data (src/app.py and               *)
(* src/portfolio_analyzer.py), scenario stress test (src/stress_test.py),  *)
(* Sharpe ratio (src/app.py, src/risk_metrics.py) and CAGR (src/app.py).   *)
(*                                                                         *)
(* Numbers.  Python floats are modelled by exact arithmetic: weights and   *)
(* returns are integers in percent (0.30 is 30), quotients are exact       *)
(* rationals n/d.  None is the string "None".                              *)
(* A Python dict is a sequence of <<key, value>> pairs in insertion order  *)
(* where the code depends on the order, a function otherwise.              *)
(***************************************************************************)
EXTENDS Integers, Sequences, FiniteSets, TLC

VARIABLES
    pc,                     \* position of the run: "start", then how the call ended
    info,                   \* yf.Ticker(t).info outcome per ticker (external)
    sector_perf,            \* dict sector -> CAGR or NaN, insertion order
    portfolio_sector_wts,   \* dict sector -> exposure (percent)
    underperformers,        \* list of <<ticker, cagr>>
    recommendations,        \* dict ticker -> <<sector, rec_ticker>>, insertion order
    final_tickers,          \* adj_close.columns.tolist()
    stock_cagr,             \* calculate_cagr(adj_close[t]) per ticker
    port_cagr,              \* CAGR of the portfolio
    tickers,                \* the Ticker column of the portfolio
    weights,                \* the Weight column of the portfolio
    sector_wts,             \* result of portfolio_sector_weights
    port_sector_wts_dict,   \* exposure computed by the analysis flow
    available,              \* tickers the price download has a column for (external)
    n_rows,                 \* dates on which every downloaded ticker has a price (external)
    multi_index,            \* whether the download has two-level columns (external)
    weights_matched,        \* app.py: weights of final_tickers, renormalized
    price_data,             \* portfolio_analyzer.py: <<columns, weights applied>>
    prices,                 \* one price column: list of <<day, price>>
    scenario,               \* scenario name given to run_stress_test
    base_returns,           \* weighted daily returns
    shocked_returns,        \* the returns under the scenario
    summary,                \* result of run_stress_test
    etf_columns,            \* sectors whose ETF the download has a column for (external)
    port_sharpe,            \* app.py: Sharpe ratio of the portfolio
    sharpe_ratio,           \* risk_metrics.py: Sharpe ratio
    cagr_result,            \* result of a call of calculate_cagr
    error                   \* the exception that ended the call, "" when none

vars == <<pc, info, sector_perf, portfolio_sector_wts, underperformers, recommendations,
          final_tickers, stock_cagr, port_cagr,
          tickers, weights, sector_wts, port_sector_wts_dict,
          available, n_rows, multi_index, weights_matched, price_data,
          prices, scenario, base_returns, shocked_returns, summary,
          etf_columns, port_sharpe, sharpe_ratio, cagr_result, error>>

recVars == <<sector_perf, portfolio_sector_wts, recommendations>>
underVars == <<final_tickers, stock_cagr, port_cagr>>
wtsVars == <<tickers, weights, sector_wts, port_sector_wts_dict>>
alignVars == <<available, n_rows, multi_index, weights_matched, price_data>>
stressVars == <<prices, scenario, base_returns, shocked_returns, summary>>
metricVars == <<etf_columns, port_sharpe, sharpe_ratio, cagr_result, error>>

None == "None"

(***************************************************************************)
(* Floats: an exact rational n/d in lowest terms with d > 0, or NaN, +inf,  *)
(* -inf.                                                                   *)
(***************************************************************************)
RECURSIVE GCD(_, _)
GCD(a, b) == IF b = 0 THEN a ELSE GCD(b, a % b)

Frac(n, d) ==
    LET g == GCD(IF n < 0 THEN -n ELSE n, d) IN
    [k |-> "num", n |-> n \div g, d |-> d \div g]
Num(n) == Frac(n, 1)
NaN == [k |-> "nan", n |-> 0, d |-> 1]
Inf == [k |-> "inf", n |-> 1, d |-> 1]
NegInf == [k |-> "inf", n |-> -1, d |-> 1]

\* np.isnan
isnan(x) == x.k = "nan"
IsNum(x) == x.k = "num"

\* comparisons of finite floats; any comparison with NaN is False
FLt(a, b) == IsNum(a) /\ IsNum(b) /\ a.n * b.d < b.n * a.d
FLe(a, b) == IsNum(a) /\ IsNum(b) /\ a.n * b.d <= b.n * a.d
FGt(a, b) == FLt(b, a)
FGe(a, b) == FLe(b, a)
FEq(a, b) == IsNum(a) /\ IsNum(b) /\ a.n * b.d = b.n * a.d

\* arithmetic; NaN propagates, a zero divisor is the caller's case
FAdd(a, b) == IF IsNum(a) /\ IsNum(b) THEN Frac(a.n * b.d + b.n * a.d, a.d * b.d) ELSE NaN
FSub(a, b) == IF IsNum(a) /\ IsNum(b) THEN Frac(a.n * b.d - b.n * a.d, a.d * b.d) ELSE NaN
FMul(a, b) == IF IsNum(a) /\ IsNum(b) THEN Frac(a.n * b.n, a.d * b.d) ELSE NaN

\* numpy division: x / 0 is +inf or -inf with a warning, 0 / 0 is NaN
FDiv(a, b) ==
    IF ~(IsNum(a) /\ IsNum(b)) THEN NaN
    ELSE IF b.n = 0 THEN (IF a.n = 0 THEN NaN ELSE IF a.n > 0 THEN Inf ELSE NegInf)
    ELSE IF b.n > 0 THEN Frac(a.n * b.d, a.d * b.n)
    ELSE Frac(-(a.n * b.d), -(a.d * b.n))

\* sum of a list of floats, left to right from 0.0
RECURSIVE FSumFrom(_, _)
FSumFrom(acc, s) == IF s = <<>> THEN acc ELSE FSumFrom(FAdd(acc, Head(s)), Tail(s))
FSum(s) == FSumFrom(Num(0), s)

(***************************************************************************)
(* Bounds of the model.                                                    *)
(***************************************************************************)
MaxCagr == 2        \* sector CAGRs range over 1..MaxCagr, and NaN
MaxUnder == 2       \* longest list of underperformers
MaxStock == 4       \* ticker CAGRs range over -MaxStock..MaxStock percent, and NaN
MaxPort == 1        \* portfolio CAGRs range over 10 * (-MaxPort..MaxPort) percent
MaxRows == 3        \* most rows of a portfolio
MaxWeight == 2      \* raw weights range over 1..MaxWeight
MaxDataRows == 2    \* common price rows range over 0..MaxDataRows
MaxLen == 3         \* most points of a price series
MaxPrice == 4       \* prices range over 1..MaxPrice

(***************************************************************************)
(* Program constants.                                                      *)
(***************************************************************************)
TopN == 3           \* sorted_sectors[:3]
CapPct == 30        \* portfolio_sector_wts.get(sector, 0) < 0.3, in percent

\* INDIAN_SECTOR_ETFS, its first four entries in the order of the source.
INDIAN_SECTOR_ETFS ==
    << <<"Banking", "NSEBANK.NS">>, <<"IT", "NSEIT.NS">>,
       <<"Pharma", "NSEPHARMA.NS">>, <<"Energy", "NSEOIL.NS">> >>

Sectors == [i \in 1..Len(INDIAN_SECTOR_ETFS) |-> INDIAN_SECTOR_ETFS[i][1]]
SectorSet == {Sectors[i] : i \in 1..Len(Sectors)}

\* Portfolio tickers of the model.
Tickers == {"T1", "T2"}

(***************************************************************************)
(* Python dict and list helpers.                                           *)
(***************************************************************************)
Keys(d) == {d[i][1] : i \in 1..Len(d)}

\* d.get(k, default)
DictGet(d, k, default) ==
    IF k \in Keys(d)
    THEN LET i == CHOOSE j \in 1..Len(d) : d[j][1] = k IN d[i][2]
    ELSE default

\* d[k] = v : an existing key keeps its position, a new key is appended
DictSet(d, k, v) ==
    IF k \in Keys(d)
    THEN [i \in 1..Len(d) |-> IF d[i][1] = k THEN <<k, v>> ELSE d[i]]
    ELSE Append(d, <<k, v>>)

\* f.get(k, default) for a dict kept as a function
FnGet(f, k, default) == IF k \in DOMAIN f THEN f[k] ELSE default

\* s[:n]
Take(s, n) == SubSeq(s, 1, IF Len(s) < n THEN Len(s) ELSE n)

\* all sequences over S of length at most n
SeqsUpTo(S, n) == UNION {[1..k -> S] : k \in 0..n}

(***************************************************************************)
(* get_sector_of_stock: info.get('sector', 'Unknown'); None, blank and a   *)
(* raised exception give 'Unknown'.  info[t] is the outcome of the lookup: *)
(* a sector label, "None", "" or " " (blank), "NoKey" (no 'sector' key),   *)
(* or "Raises".                                                            *)
(***************************************************************************)
get_sector_of_stock(ticker) ==
    LET v == info[ticker] IN
    IF v = "Raises" THEN "Unknown"
    ELSE IF v = "NoKey" THEN "Unknown"
    ELSE IF v = None \/ v = "" \/ v = " " THEN "Unknown"
    ELSE v

(***************************************************************************)
(* recommend_replacements                                                  *)
(***************************************************************************)
\* {k: v for k, v in sector_perf.items() if not np.isnan(v)}
RECURSIVE valid_sectors(_)
valid_sectors(perf) ==
    IF perf = <<>> THEN <<>>
    ELSE IF isnan(Head(perf)[2]) THEN valid_sectors(Tail(perf))
         ELSE <<Head(perf)>> \o valid_sectors(Tail(perf))

\* faulty variant of the insertion: an item goes before the items of equal CAGR
RECURSIVE InsertDescTies(_, _)
InsertDescTies(sorted, item) ==
    IF sorted = <<>> THEN <<item>>
    ELSE IF FGt(Head(sorted)[2], item[2])
         THEN <<Head(sorted)>> \o InsertDescTies(Tail(sorted), item)
         ELSE <<item>> \o sorted

\* One insertion of Python's stable sort with key = CAGR, reverse = True:
\* an item goes after every item whose CAGR is greater or equal.
RECURSIVE InsertDesc(_, _)
InsertDesc(sorted, item) ==
    IF sorted = <<>> THEN <<item>>
    ELSE IF FGe(Head(sorted)[2], item[2])
         THEN <<Head(sorted)>> \o InsertDesc(Tail(sorted), item)
         ELSE <<item>> \o sorted

\* sorted(valid_sectors.items(), key=lambda x: x[1], reverse=True)
RECURSIVE SortFrom(_, _)
SortFrom(acc, items) ==
    IF items = <<>> THEN acc
    ELSE SortFrom(InsertDesc(acc, Head(items)), Tail(items))

sorted_sectors(perf) == SortFrom(<<>>, valid_sectors(perf))

\* [s for s, _ in sorted_sectors[:3]]
top_sectors(perf) ==
    LET t == Take(sorted_sectors(perf), TopN) IN [i \in 1..Len(t) |-> t[i][1]]

\* faulty variant of the cap test: the cap itself passes
BelowCapInclusive(wts, sector) == FnGet(wts, sector, 0) <= CapPct

\* portfolio_sector_wts.get(sector, 0) < 0.3
BelowCap(wts, sector) == FnGet(wts, sector, 0) < CapPct

\* the inner for loop: the first top sector that differs and is below the cap
RECURSIVE FirstEligible(_, _, _)
FirstEligible(tops, under_sector, wts) ==
    IF tops = <<>> THEN None
    ELSE IF Head(tops) # under_sector /\ BelowCap(wts, Head(tops))
         THEN Head(tops)
         ELSE FirstEligible(Tail(tops), under_sector, wts)

\* faulty variant of the fallback: none is taken
ReplacementSectorNoFallback(tops, under_sector, wts) ==
    FirstEligible(tops, under_sector, wts)

\* lines 111-119: the loop, then the fallback to top_sectors[0]
ReplacementSector(tops, under_sector, wts) ==
    LET r == FirstEligible(tops, under_sector, wts) IN
    IF r = None /\ tops # <<>> THEN tops[1] ELSE r

\* the body of the outer loop for one underperformer
RecommendOne(recs, under_ticker, tops, wts, etf_map) ==
    LET under_sector == get_sector_of_stock(under_ticker)
        replacement_sector == ReplacementSector(tops, under_sector, wts)
        rec_ticker == DictGet(etf_map, replacement_sector, None)
    IN DictSet(recs, under_ticker, <<replacement_sector, rec_ticker>>)

RECURSIVE RecommendLoop(_, _, _, _, _)
RecommendLoop(recs, unders, tops, wts, etf_map) ==
    IF unders = <<>> THEN recs
    ELSE RecommendLoop(RecommendOne(recs, Head(unders)[1], tops, wts, etf_map),
                       Tail(unders), tops, wts, etf_map)

recommend_replacements(unders, perf, wts, portfolio_tickers, etf_map) ==
    RecommendLoop(<<>>, unders, top_sectors(perf), wts, etf_map)

(***************************************************************************)
(* Specification of the recommender: the inputs are drawn in Init, the     *)
(* action is one call of recommend_replacements.                           *)
(***************************************************************************)
CagrVals == {Num(c) : c \in 1..MaxCagr} \cup {NaN}

\* get_sector_etf_performance gives every sector of the registry a value or NaN
SectorPerfs ==
    {[i \in 1..Len(Sectors) |-> <<Sectors[i], c[i]>>] : c \in [1..Len(Sectors) -> CagrVals]}

\* exposures: a sector is absent, just below the cap, or at the cap; the
\* portfolio holds the tickers of the model, so at most that many sectors
\* carry weight
WtVals == {CapPct - 1, CapPct}
Exposures ==
    UNION {[D -> WtVals] : D \in {E \in SUBSET SectorSet : Cardinality(E) <= Cardinality(Tickers)}}

\* the sector lookup of the two tickers: one in a ranked sector, one unresolved
RecInfos == {[t \in Tickers |-> IF t = "T1" THEN s ELSE None] : s \in {"Banking", "Energy"}}

IdleRec ==
    /\ sector_perf = <<>>
    /\ portfolio_sector_wts = <<>>
    /\ recommendations = <<>>

IdleWts ==
    /\ tickers = <<>>
    /\ weights = <<>>
    /\ sector_wts = <<>>
    /\ port_sector_wts_dict = <<>>

IdleAlign ==
    /\ available = {}
    /\ n_rows = 0
    /\ multi_index = TRUE
    /\ weights_matched = <<>>
    /\ price_data = <<>>

IdleStress ==
    /\ prices = <<>>
    /\ scenario = ""
    /\ base_returns = <<>>
    /\ shocked_returns = <<>>
    /\ summary = <<>>

IdleMetrics ==
    /\ etf_columns = {}
    /\ port_sharpe = NaN
    /\ sharpe_ratio = NaN
    /\ cagr_result = NaN
    /\ error = ""

IdleUnder ==
    /\ final_tickers = <<>>
    /\ stock_cagr = <<>>
    /\ port_cagr = NaN

InitRec ==
    /\ pc = "start"
    /\ IdleUnder
    /\ IdleWts
    /\ IdleAlign
    /\ IdleStress
    /\ IdleMetrics
    /\ info \in RecInfos
    /\ sector_perf \in SectorPerfs
    /\ portfolio_sector_wts \in Exposures
    /\ underperformers \in SeqsUpTo({<<t, Num(0)>> : t \in Tickers}, MaxUnder)
    /\ recommendations = <<>>

Recommend ==
    /\ pc = "start"
    /\ recommendations' = recommend_replacements(underperformers, sector_perf,
                              portfolio_sector_wts, Tickers, INDIAN_SECTOR_ETFS)
    /\ pc' = "done"
    /\ UNCHANGED <<info, sector_perf, portfolio_sector_wts, underperformers,
                   underVars, wtsVars, alignVars, stressVars, metricVars>>

NextRec == Recommend

SpecRec == InitRec /\ [][NextRec]_vars


(***************************************************************************)
(* Properties of the recommender.                                          *)
(***************************************************************************)
Done == pc = "done"
Exposure(sector) == FnGet(portfolio_sector_wts, sector, 0)
UnderTickers == {underperformers[i][1] : i \in 1..Len(underperformers)}
RecOf(t) == DictGet(recommendations, t, <<"absent", "absent">>)

\* positions of the top sectors that differ from the sector of t and are below the cap
Eligible(tops, t) ==
    {i \in 1..Len(tops) :
        tops[i] # get_sector_of_stock(t) /\ Exposure(tops[i]) < CapPct}
MinOf(S) == CHOOSE x \in S : \A y \in S : x <= y

\* C1: when some top-3 sector differs from the underperformer's sector and has
\* exposure strictly below 0.30, the recommended sector is the first such sector
\* in ranking order; a sector at exactly 0.30 or equal to the underperformer's
\* sector is not chosen in that case.
C1_FirstEligibleChosen ==
    Done =>
        LET tops == top_sectors(sector_perf) IN
        \A t \in UnderTickers :
            LET el == Eligible(tops, t) IN
            el # {} =>
                /\ RecOf(t)[1] = tops[MinOf(el)]
                /\ RecOf(t)[1] # get_sector_of_stock(t)
                /\ Exposure(RecOf(t)[1]) # CapPct

\* the first top sector is the underperformer's own, the second is at the cap,
\* the third is recommended
C1_Witness ==
    /\ Done
    /\ LET tops == top_sectors(sector_perf) IN
       \E t \in UnderTickers :
        /\ Len(tops) = TopN
        /\ tops[1] = get_sector_of_stock(t)
        /\ Exposure(tops[2]) = CapPct
        /\ RecOf(t)[1] = tops[3]

AllNaN == \A i \in 1..Len(sector_perf) : isnan(sector_perf[i][2])
CagrOf(sector) == DictGet(sector_perf, sector, NaN)

\* C2: with no eligible top-3 sector the recommendation is the single
\* highest-ranked sector, whatever its exposure or the underperformer's sector;
\* the sector is undefined, with no instrument, exactly when every sector's CAGR
\* is NaN.
C2_FallbackToHighest ==
    Done =>
        LET tops == top_sectors(sector_perf) IN
        \A t \in UnderTickers :
            /\ (Eligible(tops, t) = {} /\ tops # <<>>) =>
                  /\ RecOf(t)[1] = tops[1]
                  /\ \A i \in 1..Len(sector_perf) :
                        isnan(sector_perf[i][2])
                        \/ FGe(CagrOf(RecOf(t)[1]), sector_perf[i][2])
            /\ (RecOf(t)[1] = None) <=> AllNaN
            /\ (RecOf(t)[1] = None) => (RecOf(t)[2] = None)

\* the fallback recommends the underperformer's own sector, which is at the cap
C2_Witness ==
    /\ Done
    /\ LET tops == top_sectors(sector_perf) IN
       \E t \in UnderTickers :
        /\ Eligible(tops, t) = {}
        /\ RecOf(t)[1] = get_sector_of_stock(t)
        /\ Exposure(RecOf(t)[1]) = CapPct
        /\ RecOf(t)[2] # None

\* C3: one recommendation per input underperformer, in input order, also when
\* a ticker occurs more than once in the input.
C3_OnePerInput ==
    Done =>
        /\ Len(recommendations) = Len(underperformers)
        /\ \A i \in 1..Len(underperformers) :
              recommendations[i][1] = underperformers[i][1]

\* Python's order of the sector labels (str.__lt__)
LabelOrder == <<"Banking", "Energy", "IT", "Pharma">>
LabelPos(label) == CHOOSE i \in 1..Len(LabelOrder) : LabelOrder[i] = label
InsertPos(sector) == CHOOSE i \in 1..Len(sector_perf) : sector_perf[i][1] = sector
\* C5 as stated: the ranking is sorted by CAGR descending and sectors of equal
\* CAGR are in ascending label order.
C5_TiesByLabel ==
    Done =>
        LET ranked == sorted_sectors(sector_perf) IN
        \A i, j \in 1..Len(ranked) :
            i < j =>
                \/ FGt(ranked[i][2], ranked[j][2])
                \/ /\ FEq(ranked[i][2], ranked[j][2])
                   /\ LabelPos(ranked[i][1]) < LabelPos(ranked[j][1])

\* C5 as amended: the ranking holds exactly the sectors with a defined CAGR,
\* in non-increasing CAGR order, and sectors of equal CAGR keep the order in
\* which the sector-performance mapping holds them.
C5_TiesByInsertion ==
    Done =>
        LET ranked == sorted_sectors(sector_perf) IN
        /\ {ranked[i] : i \in 1..Len(ranked)}
              = {sector_perf[i] : i \in {j \in 1..Len(sector_perf) : ~isnan(sector_perf[j][2])}}
        /\ Len(ranked) = Cardinality({ranked[i] : i \in 1..Len(ranked)})
        /\ \A i, j \in 1..Len(ranked) :
              i < j =>
                  \/ FGt(ranked[i][2], ranked[j][2])
                  \/ /\ FEq(ranked[i][2], ranked[j][2])
                     /\ InsertPos(ranked[i][1]) < InsertPos(ranked[j][1])

\* IT and Energy tie and IT, inserted first, is ranked first
C5_Witness ==
    /\ Done
    /\ LET ranked == sorted_sectors(sector_perf) IN
       \E i \in 1..Len(ranked) :
        /\ i < Len(ranked)
        /\ ranked[i][1] = "IT"
        /\ ranked[i + 1][1] = "Energy"
        /\ FEq(ranked[i][2], ranked[i + 1][2])


(***************************************************************************)
(* Underperformer detection, src/app.py lines 233-237.                     *)
(***************************************************************************)
AllTickers == {"T1", "T2", "T3"}

\* faulty variant of the threshold test: a CAGR equal to the threshold is flagged
IsUnderperformerInclusive(cagr, portfolio) == FLe(cagr, FMul(Frac(3, 10), portfolio))

\* stock_cagr < 0.3 * port_cagr
IsUnderperformer(cagr, portfolio) == FLt(cagr, FMul(Frac(3, 10), portfolio))

RECURSIVE UnderLoop(_, _, _, _)
UnderLoop(acc, ts, cagrs, portfolio) ==
    IF ts = <<>> THEN acc
    ELSE UnderLoop(IF IsUnderperformer(cagrs[Head(ts)], portfolio)
                   THEN Append(acc, <<Head(ts), cagrs[Head(ts)]>>)
                   ELSE acc,
                   Tail(ts), cagrs, portfolio)

find_underperformers(ts, cagrs, portfolio) == UnderLoop(<<>>, ts, cagrs, portfolio)

StockCagrs == {Num(c) : c \in (-MaxStock)..MaxStock} \cup {NaN}
PortCagrs == {Num(10 * k) : k \in (-MaxPort)..MaxPort}

\* the columns of a DataFrame: lists of distinct tickers
DistinctLists(S) ==
    {s \in SeqsUpTo(S, Cardinality(S)) : \A i, j \in 1..Len(s) : i # j => s[i] # s[j]}

InitUnder ==
    /\ pc = "start"
    /\ IdleRec
    /\ IdleWts
    /\ IdleAlign
    /\ IdleStress
    /\ IdleMetrics
    /\ info = [t \in Tickers |-> None]
    /\ final_tickers \in DistinctLists(AllTickers)
    /\ stock_cagr \in [AllTickers -> StockCagrs]
    /\ port_cagr \in PortCagrs
    /\ underperformers = <<>>

FindUnderperformers ==
    /\ pc = "start"
    /\ underperformers' = find_underperformers(final_tickers, stock_cagr, port_cagr)
    /\ pc' = "done"
    /\ UNCHANGED <<info, final_tickers, stock_cagr, port_cagr,
                   recVars, wtsVars, alignVars, stressVars, metricVars>>

NextUnder == FindUnderperformers

SpecUnder == InitUnder /\ [][NextUnder]_vars

PosIn(s, x) == CHOOSE i \in 1..Len(s) : s[i] = x
Flagged(t) == \E j \in 1..Len(underperformers) : underperformers[j] = <<t, stock_cagr[t]>>

\* C4: a ticker is flagged exactly when its CAGR is strictly less than 0.3 times
\* the portfolio CAGR, also for a negative portfolio CAGR, and the flagged
\* (ticker, cagr) pairs keep the relative order of the analyzed ticker list.
C4_FlaggedIffBelowThreshold ==
    Done =>
        /\ \A i \in 1..Len(final_tickers) :
              LET t == final_tickers[i] IN
              Flagged(t) <=>
                  /\ IsNum(stock_cagr[t])
                  /\ 10 * stock_cagr[t].n < 3 * port_cagr.n
        /\ \A j \in 1..Len(underperformers) :
              /\ \E i \in 1..Len(final_tickers) : final_tickers[i] = underperformers[j][1]
              /\ underperformers[j][2] = stock_cagr[underperformers[j][1]]
        /\ \A j, k \in 1..Len(underperformers) :
              j < k => PosIn(final_tickers, underperformers[j][1])
                          < PosIn(final_tickers, underperformers[k][1])

\* a negative portfolio CAGR: a ticker at the threshold and a ticker with a small
\* negative CAGR above it are not flagged, and a ticker below it is
C4_Witness ==
    /\ Done
    /\ port_cagr = Num(-10)
    /\ final_tickers = <<"T3", "T1", "T2">>
    /\ stock_cagr["T3"] = Num(-4) /\ stock_cagr["T1"] = Num(-3) /\ stock_cagr["T2"] = Num(-1)
    /\ underperformers = << <<"T3", Num(-4)>> >>


(***************************************************************************)
(* Sector exposure: portfolio_sector_weights, and the loop of the analysis *)
(* flow over portfolio_sector_map (src/app.py lines 168-176).              *)
(***************************************************************************)
\* faulty variant of the accumulation: the last weight of a sector replaces the sum
AccumulateLast(wts, sector, w) ==
    [s \in DOMAIN wts \cup {sector} |-> IF s = sector THEN w ELSE wts[s]]

\* sector_wts[sector] += w on a defaultdict(float)
Accumulate(wts, sector, w) ==
    [s \in DOMAIN wts \cup {sector} |->
        IF s = sector THEN FAdd(FnGet(wts, sector, Num(0)), w) ELSE wts[s]]

Min(a, b) == IF a < b THEN a ELSE b

\* for t, w in zip(tickers, weights): sector_wts[get_sector_of_stock(t)] += w
RECURSIVE SectorWeightsLoop(_, _, _, _)
SectorWeightsLoop(wts, ts, ws, i) ==
    IF i > Min(Len(ts), Len(ws)) THEN wts
    ELSE SectorWeightsLoop(Accumulate(wts, get_sector_of_stock(ts[i]), ws[i]), ts, ws, i + 1)

portfolio_sector_weights(ts, ws) == SectorWeightsLoop(<<>>, ts, ws, 1)

\* portfolio_sector_map[tkr] = cached_get_sector(tkr), one entry per ticker
portfolio_sector_map(ts) ==
    [t \in {ts[i] : i \in 1..Len(ts)} |-> get_sector_of_stock(t)]

RECURSIVE ExposureLoop(_, _, _, _, _)
ExposureLoop(wts, map, ts, ws, i) ==
    IF i > Min(Len(ts), Len(ws)) THEN wts
    ELSE ExposureLoop(Accumulate(wts, FnGet(map, ts[i], "Unknown"), ws[i]), map, ts, ws, i + 1)

\* weights /= weights.sum()
Normalize(ws) == LET total == FSum(ws) IN [i \in 1..Len(ws) |-> FDiv(ws[i], total)]

InfoVals == {"Energy", "Banking", None, "", "NoKey", "Raises"}
\* one ticker's lookup takes every outcome, the other's is a sector or None
WtsInfos == {[t \in Tickers |-> IF t = "T1" THEN a ELSE b] : a \in InfoVals, b \in {"Energy", None}}
Rows == SeqsUpTo(Tickers \X (1..MaxWeight), MaxRows)

InitWts ==
    /\ pc = "start"
    /\ IdleRec
    /\ IdleUnder
    /\ IdleAlign
    /\ IdleStress
    /\ IdleMetrics
    /\ underperformers = <<>>
    /\ info \in WtsInfos
    /\ \E rows \in Rows :
          /\ tickers = [i \in 1..Len(rows) |-> rows[i][1]]
          /\ weights = [i \in 1..Len(rows) |-> Num(rows[i][2])]
    /\ sector_wts = <<>>
    /\ port_sector_wts_dict = <<>>

\* a call of portfolio_sector_weights(tickers, weights)
PortfolioSectorWeights ==
    /\ pc = "start"
    /\ sector_wts' = portfolio_sector_weights(tickers, weights)
    /\ pc' = "called"
    /\ UNCHANGED <<info, underperformers, tickers, weights, port_sector_wts_dict,
                   recVars, underVars, alignVars, stressVars, metricVars>>

\* the analysis flow: normalize the weights, look up the sectors, accumulate
FlowSectorExposure ==
    /\ pc = "start"
    /\ weights' = Normalize(weights)
    /\ port_sector_wts_dict' =
          ExposureLoop(<<>>, portfolio_sector_map(tickers), tickers, weights', 1)
    /\ pc' = "done"
    /\ UNCHANGED <<info, underperformers, tickers, sector_wts,
                   recVars, underVars, alignVars, stressVars, metricVars>>

NextWts == PortfolioSectorWeights \/ FlowSectorExposure

SpecWts == InitWts /\ [][NextWts]_vars

Perms(n) == {p \in [1..n -> 1..n] : \A i, j \in 1..n : i # j => p[i] # p[j]}
Permuted(s, p) == [i \in 1..Len(s) |-> s[p[i]]]

\* the same dict up to float equality
SameWeights(f, g) == DOMAIN f = DOMAIN g /\ \A s \in DOMAIN f : FEq(f[s], g[s])

\* sum of ws[i] over the positions in the set I
RECURSIVE SumAt(_, _)
SumAt(ws, I) ==
    IF I = {} THEN Num(0)
    ELSE LET i == CHOOSE x \in I : TRUE IN FAdd(ws[i], SumAt(ws, I \ {i}))

FnTotal(f) ==
    LET RECURSIVE T(_)
        T(D) == IF D = {} THEN Num(0)
                ELSE LET x == CHOOSE y \in D : TRUE IN FAdd(f[x], T(D \ {x}))
    IN T(DOMAIN f)

\* result is the exposure of the portfolio (ts, ws): every position adds its
\* weight to the one label of its ticker, "Unknown" when the lookup resolves nothing
IsExposureOf(result, ts, ws) ==
    LET label(i) == IF info[ts[i]] \in {"Energy", "Banking"} THEN info[ts[i]] ELSE "Unknown" IN
    /\ DOMAIN result = {label(i) : i \in 1..Len(ts)}
    /\ \A s \in DOMAIN result :
          FEq(result[s], SumAt(ws, {i \in 1..Len(ts) : label(i) = s}))
    /\ FEq(FnTotal(result), FSum(ws))

\* C6: the per-sector weights sum to the sum of the input weights (1.0 after
\* normalization), every ticker adds its weight to exactly one label, unresolved
\* tickers under "Unknown", and every permutation of the (ticker, weight) pairs
\* gives the same result; for portfolio_sector_weights and for the flow's loop.
C6_ExposureIsReduction ==
    /\ pc = "called" =>
          /\ IsExposureOf(sector_wts, tickers, weights)
          /\ \A p \in Perms(Len(tickers)) :
                SameWeights(portfolio_sector_weights(Permuted(tickers, p), Permuted(weights, p)),
                            sector_wts)
    /\ (Done /\ tickers # <<>>) =>
          /\ IsExposureOf(port_sector_wts_dict, tickers, weights)
          /\ FEq(FnTotal(port_sector_wts_dict), Num(1))
          /\ \A p \in Perms(Len(tickers)) :
                SameWeights(ExposureLoop(<<>>, portfolio_sector_map(tickers),
                                Permuted(tickers, p), Permuted(weights, p), 1),
                            port_sector_wts_dict)

\* two rows of one unresolved ticker and a row of a resolved one, unequal weights
C6_Witness ==
    /\ Done
    /\ Len(tickers) = 3
    /\ tickers[1] = tickers[3] /\ tickers[1] # tickers[2]
    /\ ~FEq(weights[1], weights[3])
    /\ DOMAIN port_sector_wts_dict = {"Unknown", "Energy"}
    /\ FEq(port_sector_wts_dict["Unknown"], FAdd(weights[1], weights[3]))


(***************************************************************************)
(* Price alignment when the download lacks tickers: src/app.py lines       *)
(* 137-140 and 185-209, src/portfolio_analyzer.py lines 24-58.             *)
(***************************************************************************)
\* the for loop of lines 188-195: a ticker gets a column when the download has
\* one; on single-level columns data.columns.levels raises, which is caught per
\* ticker, and the ticker is skipped
RECURSIVE AdjCloseColumns(_, _, _, _)
AdjCloseColumns(cols, ts, avail, multi) ==
    IF ts = <<>> THEN cols
    ELSE AdjCloseColumns(
            IF multi /\ Head(ts) \in avail /\ ~(\E i \in 1..Len(cols) : cols[i] = Head(ts))
            THEN Append(cols, Head(ts)) ELSE cols,
            Tail(ts), avail, multi)

\* tickers.index(tkr): the first position of tkr
IndexOf(ts, tkr) == CHOOSE i \in 1..Len(ts) : ts[i] = tkr /\ \A j \in 1..(i - 1) : ts[j] # tkr

\* lines 204-209: weights[tickers.index(tkr)] per final ticker, then /= sum
WeightsMatched(final, ts, ws) ==
    Normalize([i \in 1..Len(final) |-> ws[IndexOf(ts, final[i])]])

\* abs(portfolio['weight'].sum() - 1.0) > 0.01
NeedsNormalizing(ws) ==
    LET diff == FSub(FSum(ws), Num(1))
        absdiff == IF diff.n < 0 THEN Frac(-diff.n, diff.d) ELSE diff
    IN FGt(absdiff, Frac(1, 100))

InitAlign ==
    /\ pc = "start"
    /\ IdleRec
    /\ IdleUnder
    /\ IdleStress
    /\ IdleMetrics
    /\ underperformers = <<>>
    /\ info = [t \in Tickers |-> None]
    /\ sector_wts = <<>>
    /\ port_sector_wts_dict = <<>>
    /\ tickers \in DistinctLists(AllTickers) \ {<<>>}
    /\ weights \in [1..Len(tickers) -> {Num(w) : w \in 1..MaxWeight}]
    /\ available \in SUBSET AllTickers
    /\ n_rows \in 0..MaxDataRows
    /\ multi_index \in BOOLEAN
    /\ Len(tickers) > 1 => multi_index
    /\ weights_matched = <<>>
    /\ price_data = <<>>

\* app.py: normalize, align, guard, match the weights
AppAlign ==
    /\ pc = "start"
    /\ weights' = Normalize(weights)
    /\ LET cols == AdjCloseColumns(<<>>, tickers, available, multi_index)
           rows == IF cols = <<>> THEN 0 ELSE n_rows
       IN IF rows < 2
          THEN /\ pc' = "stopped"
               /\ UNCHANGED <<final_tickers, weights_matched>>
          ELSE /\ final_tickers' = cols
               /\ weights_matched' = WeightsMatched(cols, tickers, weights')
               /\ pc' = "done"
    /\ UNCHANGED <<info, underperformers, stock_cagr, port_cagr, tickers, sector_wts,
                   port_sector_wts_dict, available, n_rows, multi_index, price_data,
                   recVars, stressVars, metricVars>>

\* portfolio_analyzer.py: normalize when off by more than 0.01, build price_data
\* for every ticker (KeyError for a ticker without a column: error and stop),
\* dropna, divide by the first row (IndexError without rows, caught by the outer
\* handler), multiply the columns by the weights in order
PAAnalyze ==
    /\ pc = "start"
    /\ weights' = IF NeedsNormalizing(weights) THEN Normalize(weights) ELSE weights
    /\ LET ts == {tickers[i] : i \in 1..Len(tickers)} IN
       IF multi_index /\ ~(ts \subseteq available)
       THEN pc' = "pa_stopped" /\ UNCHANGED price_data
       ELSE IF ~multi_index /\ ~(tickers[1] \in available)
       THEN pc' = "pa_stopped" /\ UNCHANGED price_data
       ELSE IF n_rows = 0
       THEN pc' = "pa_error" /\ UNCHANGED price_data
       ELSE /\ pc' = "pa_done"
            /\ price_data' = <<IF multi_index THEN tickers ELSE Take(tickers, 1), weights'>>
    /\ UNCHANGED <<info, underperformers, tickers, sector_wts, port_sector_wts_dict,
                   available, n_rows, multi_index, weights_matched,
                   recVars, underVars, stressVars, metricVars>>

NextAlign == AppAlign \/ PAAnalyze

SpecAlign == InitAlign /\ [][NextAlign]_vars

TickerSet == {tickers[i] : i \in 1..Len(tickers)}
PartlyMissing ==
    /\ ~(TickerSet \subseteq available)
    /\ TickerSet \cap available # {}
    /\ n_rows >= 2

\* the kept tickers cols with weights ws: the tickers with data, in portfolio
\* order, each with the weight of its own row, in unchanged proportion, summing to 1
KeepsOwnWeights(cols, ws) ==
    /\ Len(cols) = Len(ws)
    /\ {cols[i] : i \in 1..Len(cols)} = TickerSet \cap available
    /\ FEq(FSum(ws), Num(1))
    /\ \A i, j \in 1..Len(cols) :
          FEq(FMul(ws[i], weights[PosIn(tickers, cols[j])]),
              FMul(ws[j], weights[PosIn(tickers, cols[i])]))

\* app.py alone excludes the missing tickers, keeps the portfolio order and
\* renormalizes the remaining weights
AppAlignKeepsOwnWeights ==
    (PartlyMissing /\ pc \in {"done", "stopped"}) =>
        /\ pc = "done"
        /\ KeepsOwnWeights(final_tickers, weights_matched)
        /\ \A i, j \in 1..Len(final_tickers) :
              i < j => PosIn(tickers, final_tickers[i]) < PosIn(tickers, final_tickers[j])

\* C7: when price data is missing for some but not all tickers, the analysis
\* neither raises nor stops: the missing tickers are excluded, every remaining
\* ticker keeps its own weight, and the weights are renormalized to sum to 1.0
\* in unchanged proportion; in app.py and in portfolio_analyzer.py.
C7_MissingTickersExcluded ==
    (PartlyMissing /\ pc # "start") =>
        /\ pc \in {"done", "pa_done"}
        /\ pc = "done" => KeepsOwnWeights(final_tickers, weights_matched)
        /\ pc = "pa_done" => KeepsOwnWeights(price_data[1], price_data[2])


(***************************************************************************)
(* run_stress_test, src/stress_test.py.                                    *)
(***************************************************************************)
\* price_data.pct_change().dropna() of one column
pct_change(ps) ==
    [i \in 1..(Len(ps) - 1) |-> FDiv(FSub(Num(ps[i + 1][2]), Num(ps[i][2])), Num(ps[i][2]))]

\* (returns * weights).sum(axis=1) for one column
WeightedReturns(rets, ws) == [i \in 1..Len(rets) |-> FMul(rets[i], ws[1])]

\* Series.mean(): NaN for an empty series
Mean(s) == IF s = <<>> THEN NaN ELSE FDiv(FSum(s), Num(Len(s)))

\* faulty variant of the scenario table: the rate hike raises the returns
ShockHikeUp(kind) ==
    IF kind = "Market Crash -10%" THEN Frac(-10, 100)
    ELSE IF kind = "Interest Rate Hike +2%" THEN Frac(2, 100)
    ELSE Num(0)

\* the offset subtracted in each branch
Shock(kind) ==
    IF kind = "Market Crash -10%" THEN Frac(-10, 100)
    ELSE IF kind = "Interest Rate Hike +2%" THEN Frac(-2, 100)
    ELSE Num(0)

ShockedReturns(base, kind) ==
    IF kind = "Market Crash -10%" \/ kind = "Interest Rate Hike +2%"
    THEN [i \in 1..Len(base) |-> FAdd(base[i], Shock(kind))]
    ELSE base

StressSummary(base, shocked) ==
    [original |-> Mean(base), shocked |-> Mean(shocked),
     impact |-> FSub(Mean(shocked), Mean(base))]

Scenarios == {"Market Crash -10%", "Interest Rate Hike +2%", "Baseline", "market crash -10%"}

\* price series on consecutive days
DailySeries == {[i \in 1..Len(p) |-> <<i, p[i]>>] : p \in SeqsUpTo(1..MaxPrice, MaxLen)}

InitStress ==
    /\ pc = "start"
    /\ IdleRec
    /\ IdleUnder
    /\ IdleAlign
    /\ IdleMetrics
    /\ underperformers = <<>>
    /\ info = [t \in Tickers |-> None]
    /\ tickers = <<"T1">>
    /\ weights \in {<<Num(w)>> : w \in 1..MaxWeight}
    /\ sector_wts = <<>>
    /\ port_sector_wts_dict = <<>>
    /\ prices \in DailySeries
    /\ scenario \in Scenarios
    /\ base_returns = <<>>
    /\ shocked_returns = <<>>
    /\ summary = <<>>

RunStressTest ==
    /\ pc = "start"
    /\ base_returns' = WeightedReturns(pct_change(prices), weights)
    /\ shocked_returns' = ShockedReturns(base_returns', scenario)
    /\ summary' = StressSummary(base_returns', shocked_returns')
    /\ pc' = "done"
    /\ UNCHANGED <<info, underperformers, prices, scenario,
                   recVars, underVars, wtsVars, alignVars, metricVars>>

NextStress == RunStressTest

SpecStress == InitStress /\ [][NextStress]_vars

\* C8: the shock is the same additive offset on every daily return, so for a
\* non-empty return series the impact (shocked mean minus baseline mean) is
\* -0.10 for the market crash, -0.02 for the rate hike and 0 for the baseline
\* and for any unrecognized scenario, whose shocked series is the baseline series.
C8_ImpactIsShock ==
    (Done /\ base_returns # <<>>) =>
        /\ Len(shocked_returns) = Len(base_returns)
        /\ scenario = "Market Crash -10%" =>
              /\ 10 * summary.impact.n = -summary.impact.d
              /\ \A i \in 1..Len(base_returns) :
                    FEq(FSub(shocked_returns[i], base_returns[i]), Frac(-1, 10))
        /\ scenario = "Interest Rate Hike +2%" =>
              /\ 50 * summary.impact.n = -summary.impact.d
              /\ \A i \in 1..Len(base_returns) :
                    FEq(FSub(shocked_returns[i], base_returns[i]), Frac(-1, 50))
        /\ scenario \notin {"Market Crash -10%", "Interest Rate Hike +2%"} =>
              /\ IsNum(summary.impact) /\ summary.impact.n = 0
              /\ shocked_returns = base_returns

\* a rate hike on two unequal returns
C8_Witness ==
    /\ Done
    /\ scenario = "Interest Rate Hike +2%"
    /\ Len(base_returns) = 2
    /\ ~FEq(base_returns[1], base_returns[2])
    /\ FEq(summary.impact, Frac(-2, 100))
    /\ ~FEq(summary.shocked, summary.original)


(***************************************************************************)
(* CAGR and Sharpe ratio: get_sector_etf_performance, calculate_cagr and   *)
(* the portfolio metrics of src/app.py; calculate_risk_metrics of          *)
(* src/risk_metrics.py.  A power or a square root is kept symbolic: a CAGR *)
(* is the growth factor with the span in days, a Sharpe ratio the numerator*)
(* with the variance under the root.                                       *)
(***************************************************************************)
\* (1 + returns).cumprod()[-1]
RECURSIVE CumProdFrom(_, _)
CumProdFrom(acc, rets) ==
    IF rets = <<>> THEN acc
    ELSE CumProdFrom(FMul(acc, FAdd(Num(1), Head(rets))), Tail(rets))

\* cum_ret[-1] ** (1 / years) - 1 with years = days / 365.25
CagrValue(factor, days) == [k |-> "cagr", n |-> factor.n, d |-> factor.d, days |-> days]

\* (prices.index[-1] - prices.index[0]).days
SpanDays(ps) == ps[Len(ps)][1] - ps[1][1]

\* the body of the loop of get_sector_etf_performance for one sector: a value,
\* NaN, or the exception of 1 / years
SectorCagr(has_column, ps) ==
    IF ~has_column THEN NaN
    ELSE IF Len(ps) < 2 THEN NaN
    ELSE IF SpanDays(ps) = 0 THEN [k |-> "raise", exc |-> "ZeroDivisionError"]
    ELSE CagrValue(CumProdFrom(Num(1), pct_change(ps)), SpanDays(ps))

\* calculate_cagr: index[-1] of an empty index, [-1] of an empty series and
\* 1 / total_years with a zero span raise
calculate_cagr(ps) ==
    IF Len(ps) = 0 THEN [k |-> "raise", exc |-> "IndexError"]
    ELSE IF Len(pct_change(ps)) = 0 THEN [k |-> "raise", exc |-> "IndexError"]
    ELSE IF SpanDays(ps) = 0 THEN [k |-> "raise", exc |-> "ZeroDivisionError"]
    ELSE CagrValue(CumProdFrom(Num(1), pct_change(ps)), SpanDays(ps))

\* Series.std() squared: the sample variance, NaN for fewer than two values
Variance(s) ==
    IF Len(s) < 2 THEN NaN
    ELSE LET n == Len(s)
             sq == [i \in 1..n |-> FMul(s[i], s[i])]
         IN FDiv(FSub(FMul(Num(n), FSum(sq)), FMul(FSum(s), FSum(s))), Num(n * (n - 1)))

\* numerator / sqrt(variance), times a constant
Ratio(numerator, variance) == [k |-> "ratio", num |-> numerator, var |-> variance]

\* port_cagr / port_volatility if port_volatility > 0 else np.nan
PortSharpe(cagr, rets) ==
    LET v == Variance(rets) IN
    IF FGt(v, Num(0)) THEN Ratio(cagr, v) ELSE NaN

\* portfolio_returns.mean() / portfolio_returns.std() * np.sqrt(252)
RiskSharpe(rets) ==
    LET m == Mean(rets)
        v == Variance(rets)
    IN IF isnan(m) \/ isnan(v) THEN NaN
       ELSE IF v.n = 0 THEN FDiv(m, Num(0))
       ELSE Ratio(m, v)

InitMetrics ==
    /\ pc = "start"
    /\ IdleRec
    /\ IdleUnder
    /\ IdleAlign
    /\ underperformers = <<>>
    /\ info = [t \in Tickers |-> None]
    /\ tickers = <<"T1">>
    /\ weights = <<Num(1)>>
    /\ sector_wts = <<>>
    /\ port_sector_wts_dict = <<>>
    /\ prices \in DailySeries
    /\ scenario = ""
    /\ base_returns = <<>>
    /\ shocked_returns = <<>>
    /\ summary = <<>>
    /\ etf_columns \in SUBSET {"Banking", "IT"}
    /\ port_sharpe = NaN
    /\ sharpe_ratio = NaN
    /\ cagr_result = NaN
    /\ error = ""

\* get_sector_etf_performance: every ETF with a column has the series prices
GetSectorEtfPerformance ==
    /\ pc = "start"
    /\ LET perf == [i \in 1..Len(Sectors) |->
                        <<Sectors[i], SectorCagr(Sectors[i] \in etf_columns, prices)>>]
           bad == {i \in 1..Len(perf) : perf[i][2].k = "raise"}
       IN IF bad # {}
          THEN /\ pc' = "sector_raised"
               /\ error' = perf[MinOf(bad)][2].exc
               /\ UNCHANGED sector_perf
          ELSE /\ pc' = "sector_done"
               /\ sector_perf' = perf
               /\ UNCHANGED error
    /\ UNCHANGED <<info, underperformers, portfolio_sector_wts, recommendations,
                   etf_columns, port_sharpe, sharpe_ratio, cagr_result,
                   underVars, wtsVars, alignVars, stressVars>>

\* a call of calculate_cagr(prices)
CalculateCagr ==
    /\ pc = "start"
    /\ LET r == calculate_cagr(prices) IN
       IF r.k = "raise"
       THEN pc' = "cagr_raised" /\ error' = r.exc /\ UNCHANGED cagr_result
       ELSE pc' = "cagr_done" /\ cagr_result' = r /\ UNCHANGED error
    /\ UNCHANGED <<info, underperformers, etf_columns, port_sharpe, sharpe_ratio,
                   recVars, underVars, wtsVars, alignVars, stressVars>>

\* app.py lines 196-220 and 233-237 on one column: the insufficient-data guard,
\* then the portfolio CAGR, volatility and Sharpe ratio and the ticker's CAGR
AppMetrics ==
    /\ pc = "start"
    /\ IF Len(prices) < 2
       THEN /\ pc' = "stopped"
            /\ UNCHANGED <<base_returns, port_cagr, port_sharpe, stock_cagr>>
       ELSE /\ base_returns' = WeightedReturns(pct_change(prices), weights)
            /\ port_cagr' = CagrValue(CumProdFrom(Num(1), base_returns'), SpanDays(prices))
            /\ port_sharpe' = PortSharpe(port_cagr', base_returns')
            /\ stock_cagr' = [t \in {"T1"} |-> calculate_cagr(prices)]
            /\ pc' = "done"
    /\ UNCHANGED <<info, underperformers, final_tickers, prices, scenario, shocked_returns,
                   summary, etf_columns, sharpe_ratio, cagr_result, error,
                   recVars, wtsVars, alignVars>>

\* calculate_risk_metrics: with no returns np.percentile raises or gives NaN,
\* depending on the numpy at hand; the Sharpe line follows
RiskMetrics ==
    /\ pc = "start"
    /\ base_returns' = WeightedReturns(pct_change(prices), weights)
    /\ \/ /\ base_returns' = <<>>
          /\ pc' = "risk_raised" /\ error' = "IndexError" /\ UNCHANGED sharpe_ratio
       \/ /\ pc' = "risk_done"
          /\ sharpe_ratio' = RiskSharpe(base_returns')
          /\ UNCHANGED error
    /\ UNCHANGED <<info, underperformers, prices, scenario, shocked_returns, summary,
                   etf_columns, port_sharpe, cagr_result,
                   recVars, underVars, wtsVars, alignVars>>

NextMetrics == GetSectorEtfPerformance \/ CalculateCagr \/ AppMetrics \/ RiskMetrics

SpecMetrics == InitMetrics /\ [][NextMetrics]_vars

\* the standard deviation of the returns is zero: two or more equal returns
ZeroVolatility ==
    /\ Len(base_returns) >= 2
    /\ \A i \in 1..Len(base_returns) : FEq(base_returns[i], base_returns[1])

\* fewer than two points, or no calendar span
NoSpan == Len(prices) < 2 \/ SpanDays(prices) = 0

\* app.py alone gives NaN at zero volatility
AppSharpeUndefinedAtZeroVolatility == (pc = "done" /\ ZeroVolatility) => isnan(port_sharpe)

\* C9: every Sharpe-ratio computation gives the undefined sentinel (NaN), and
\* neither a number nor an infinity, when the volatility is zero.
C9_ZeroVolatilityIsUndefined ==
    /\ (pc = "done" /\ ZeroVolatility) => isnan(port_sharpe)
    /\ (pc = "risk_done" /\ ZeroVolatility) => isnan(sharpe_ratio)

\* get_sector_etf_performance alone gives NaN for every sector on such a series
SectorCagrUndefinedOnShortSeries ==
    NoSpan =>
        /\ pc # "sector_raised"
        /\ pc = "sector_done" => \A i \in 1..Len(sector_perf) : isnan(sector_perf[i][2])

\* C10: every CAGR computation returns an undefined result and does not raise
\* when the series has fewer than 2 points or a zero span; in
\* get_sector_etf_performance and in calculate_cagr.
C10_ShortSeriesIsUndefined ==
    NoSpan =>
        /\ pc = "sector_done" =>
              \A i \in 1..Len(sector_perf) : isnan(sector_perf[i][2])
        /\ pc = "cagr_done" => isnan(cagr_result)
        /\ pc \notin {"sector_raised", "cagr_raised"}

=============================================================================
